---- MODULE Spec2Model ----
(***************************************************************************)
(* Model of src/03_db/extract_verse_mentions.py: the bilingual alias       *)
(* table, the two reference patterns, the two-pass extract_mentions, the   *)
(* verse_mentions schema migration and the extraction run (main).          *)
(*                                                                         *)
(* A text is a sequence of characters.  A character is a one-character     *)
(* string; a character outside ASCII is written by a name, since module    *)
(* text is ASCII:                                                          *)
(*   "yue" U+7EA6, "yi" U+4E00, "you" U+72B9 (aliases of John, 1John,      *)
(*   Jude), "han" U+7FF0, "fu" U+798F, "yin" U+97F3 (with "yue" the long   *)
(*   name of John), "zhang" U+7AE0 (chapter), "jie" U+8282 (verse),        *)
(*   "fwcolon" U+FF1A, "endash" U+2013, "emdash" U+2014,                   *)
(*   "long_s" U+017F (a letter that IGNORECASE equates with s and          *)
(*   str.lower() leaves alone), "arabic3" U+0663 (a decimal digit outside  *)
(*   ASCII).                                                               *)
(* An Optional value is None (<<>>) or Some(x) (<<x>>).                    *)
(***************************************************************************)
EXTENDS Integers, Sequences, FiniteSets, TLC

VARIABLES
    text,               \* extract_mentions: the argument text
    keep_chapter_only,  \* extract_mentions: the flag
    hits,               \* the list extract_mentions returned
    form_a,             \* what RE_REF.finditer(text) yields
    form_b,             \* what RE_CHAP_ONLY.finditer(text) yields
    xpc,                \* the call under study: "input" before it,
                        \* "returned" or "raised" after it
    parts,              \* history: the fragments text was put together from
    call,               \* the function called and its arguments
    ret,                \* what the call returned
    pc,                 \* main: the statement to execute next
    args,               \* main: the parsed command line
    paragraphs,         \* the rows of the paragraphs table
    disk,               \* the database as committed (what a crash leaves)
    conn,               \* the database as the open connection sees it
    cur,                \* main: the rows the SELECT cursor has yet to yield
    to_insert,          \* main: the buffered rows
    n_inserted,         \* executemany: how many buffered rows are inserted
    run,                \* how many runs of main were started
    run_start,          \* history: the committed database when the run began
    prev_done,          \* history: args and rows of the run completed just before
    crash_pc            \* history: where the run was interrupted ("" if not)

xvars == <<text, keep_chapter_only, hits, form_a, form_b, xpc>>

dvars == <<pc, args, paragraphs, disk, conn, cur, to_insert, n_inserted,
           run, run_start, prev_done, crash_pc>>

fvars == <<parts, call, ret>>

vars == <<xvars, fvars, dvars>>

None == <<>>
Some(x) == <<x>>

-----------------------------------------------------------------------------
(* Bounds of the model. *)

\* A text is a concatenation of at most MaxPieces members of Pieces.
MaxPieces == 4

\* The paragraphs table holds MaxParas rows.
MaxParas == 2

\* main is run at most MaxRuns times on one database.
MaxRuns == 2

\* chap_in_range is called with the chapters -1 .. MaxChapter.
MaxChapter == 201

\* An alias table is built from at most MaxRegs registrations.
MaxRegs == 3

-----------------------------------------------------------------------------
(* 1) Book name normalization *)

\* The code each _add call of the module registers aliases for, in source
\* order.
RegisteredCodes ==
    <<"Gen", "Exod", "Lev", "Num", "Deut", "Josh", "Judg", "Ruth", "1Sam",
      "2Sam", "1Kgs", "2Kgs", "1Chr", "2Chr", "Ezra", "Neh", "Esth", "Job",
      "Ps", "Prov", "Eccl", "Song", "Isa", "Jer", "Lam", "Ezek", "Dan", "Hos",
      "Joel", "Amos", "Obad", "Jonah", "Mic", "Nah", "Hab", "Zeph", "Hag",
      "Zech", "Mal", "Matt", "Mark", "Luke", "John", "Acts", "Rom", "1Cor",
      "2Cor", "Gal", "Eph", "Phil", "Col", "1Thess", "2Thess", "1Tim", "2Tim",
      "Titus", "Phlm", "Heb", "Jas", "1Pet", "2Pet", "1John", "2John",
      "3John", "Jude", "Rev">>

\* Registrations with the aliases of Jude registered for a code, "Jud",
\* that has no entry in BOOK_MAX_CHAPTERS.
Registrations_TypoCode ==
    << <<"Gen",   <<"g","e","n">> >>,
       <<"1Sam",  <<"1"," ","s","a","m">> >>,
       <<"1Sam",  <<"1","s","a","m">> >>,
       <<"John",  <<"j","o","h","n">> >>,
       <<"John",  <<"j","n">> >>,
       <<"John",  <<"yue">> >>,
       <<"John",  <<"yue","han","fu","yin">> >>,
       <<"Rom",   <<"r","o","m">> >>,
       <<"1John", <<"1"," ","j","o","h","n">> >>,
       <<"1John", <<"1","j","o","h","n">> >>,
       <<"1John", <<"yue","yi">> >>,
       <<"Jud",   <<"j","u","d","e">> >>,
       <<"Jud",   <<"you">> >> >>

\* The _add calls of the module, in source order, one pair per alias.  The
\* model registers the aliases of six books; the other books' aliases are
\* registered by the same code and differ only in their spelling.
Registrations ==
    << <<"Gen",   <<"g","e","n">> >>,
       <<"1Sam",  <<"1"," ","s","a","m">> >>,
       <<"1Sam",  <<"1","s","a","m">> >>,
       <<"John",  <<"j","o","h","n">> >>,
       <<"John",  <<"j","n">> >>,
       <<"John",  <<"yue">> >>,
       <<"John",  <<"yue","han","fu","yin">> >>,
       <<"Rom",   <<"r","o","m">> >>,
       <<"1John", <<"1"," ","j","o","h","n">> >>,
       <<"1John", <<"1","j","o","h","n">> >>,
       <<"1John", <<"yue","yi">> >>,
       <<"Jude",  <<"j","u","d","e">> >>,
       <<"Jude",  <<"you">> >> >>

UpperCase == <<"A","B","C","D","E","F","G","H","I","J","K","L","M",
               "N","O","P","Q","R","S","T","U","V","W","X","Y","Z">>
LowerCase == <<"a","b","c","d","e","f","g","h","i","j","k","l","m",
               "n","o","p","q","r","s","t","u","v","w","x","y","z">>

LowerOf == [c \in {UpperCase[i] : i \in 1..26} |->
               LowerCase[CHOOSE i \in 1..26 : UpperCase[i] = c]]

\* str.lower() on one character.
LowerChar(c) == IF c \in DOMAIN LowerOf THEN LowerOf[c] ELSE c

lower(s) == [i \in 1..Len(s) |-> LowerChar(s[i])]

\* \s of the patterns and of str.strip().
IsSpace(c) == c \in {" ", "tab"}

\* A dict as the sequence of its (key, value) entries in insertion order.
DictHas(d, k) == \E i \in 1..Len(d) : d[i][1] = k
DictGet(d, k) ==
    IF DictHas(d, k) THEN Some(d[CHOOSE i \in 1..Len(d) : d[i][1] = k][2]) ELSE None
DictSet(d, k, v) ==
    IF DictHas(d, k)
    THEN [i \in 1..Len(d) |-> IF d[i][1] = k THEN <<k, v>> ELSE d[i]]
    ELSE Append(d, <<k, v>>)

\* _add: BOOK_ALIASES[a.lower()] = osis, for each alias in turn.
\* d is the table before, regs the (osis, alias) pairs and n how many of
\* them are registered.
RECURSIVE _add(_, _, _)
_add(d, regs, n) ==
    IF n = 0 THEN d
    ELSE DictSet(_add(d, regs, n - 1), lower(regs[n][2]), regs[n][1])

BOOK_ALIASES == _add(<<>>, Registrations, Len(Registrations))

RECURSIVE LStrip(_)
LStrip(s) == IF s # <<>> /\ IsSpace(Head(s)) THEN LStrip(Tail(s)) ELSE s

RECURSIVE RStrip(_)
RStrip(s) ==
    IF s # <<>> /\ IsSpace(s[Len(s)]) THEN RStrip(SubSeq(s, 1, Len(s) - 1)) ELSE s

\* re.sub(r"\s+", " ", t): every run of whitespace becomes one space.
RECURSIVE CollapseSpaces(_)
CollapseSpaces(s) ==
    IF s = <<>> THEN <<>>
    ELSE IF IsSpace(Head(s)) THEN <<" ">> \o CollapseSpaces(LStrip(s))
    ELSE <<Head(s)>> \o CollapseSpaces(Tail(s))

\* normalize_book without the re.sub.
normalize_book_NoCollapse(token) ==
    DictGet(BOOK_ALIASES, lower(RStrip(LStrip(token))))

normalize_book(token) ==
    DictGet(BOOK_ALIASES, CollapseSpaces(lower(RStrip(LStrip(token)))))

\* Standard chapter counts.
BOOK_MAX_CHAPTERS ==
    [Gen |-> 50, Exod |-> 40, Lev |-> 27, Num |-> 36, Deut |-> 34,
     Josh |-> 24, Judg |-> 21, Ruth |-> 4, 1Sam |-> 31, 2Sam |-> 24,
     1Kgs |-> 22, 2Kgs |-> 25, 1Chr |-> 29, 2Chr |-> 36, Ezra |-> 10,
     Neh |-> 13, Esth |-> 10, Job |-> 42, Ps |-> 150, Prov |-> 31,
     Eccl |-> 12, Song |-> 8, Isa |-> 66, Jer |-> 52, Lam |-> 5,
     Ezek |-> 48, Dan |-> 12, Hos |-> 14, Joel |-> 3, Amos |-> 9,
     Obad |-> 1, Jonah |-> 4, Mic |-> 7, Nah |-> 3, Hab |-> 3,
     Zeph |-> 3, Hag |-> 2, Zech |-> 14, Mal |-> 4,
     Matt |-> 28, Mark |-> 16, Luke |-> 24, John |-> 21, Acts |-> 28,
     Rom |-> 16, 1Cor |-> 16, 2Cor |-> 13, Gal |-> 6, Eph |-> 6,
     Phil |-> 4, Col |-> 4, 1Thess |-> 5, 2Thess |-> 3, 1Tim |-> 6,
     2Tim |-> 4, Titus |-> 3, Phlm |-> 1, Heb |-> 13, Jas |-> 5,
     1Pet |-> 5, 2Pet |-> 3, 1John |-> 5, 2John |-> 1, 3John |-> 1,
     Jude |-> 1, Rev |-> 22]

\* The permissive upper bound for a code without an entry.
UnknownBookMaxChapter == 200

\* chap_in_range without the lower bound: chapter 0 is in range.
chap_in_range_NoLowerBound(book_osis, chap) ==
    IF book_osis = None \/ book_osis = Some("") \/ chap = None THEN FALSE
    ELSE IF book_osis[1] \notin DOMAIN BOOK_MAX_CHAPTERS
         THEN chap[1] <= UnknownBookMaxChapter
         ELSE chap[1] <= BOOK_MAX_CHAPTERS[book_osis[1]]

\* chap_in_range with the permissive bound for every book.
chap_in_range_FallbackForAll(book_osis, chap) ==
    IF book_osis = None \/ book_osis = Some("") \/ chap = None THEN FALSE
    ELSE 1 <= chap[1] /\ chap[1] <= UnknownBookMaxChapter

\* chap_in_range that rejects a code without an entry.
chap_in_range_RejectsUnknown(book_osis, chap) ==
    IF book_osis = None \/ book_osis = Some("") \/ chap = None THEN FALSE
    ELSE IF book_osis[1] \notin DOMAIN BOOK_MAX_CHAPTERS THEN FALSE
         ELSE 1 <= chap[1] /\ chap[1] <= BOOK_MAX_CHAPTERS[book_osis[1]]

\* "not book_osis" holds of None and of the empty string.
chap_in_range(book_osis, chap) ==
    IF book_osis = None \/ book_osis = Some("") \/ chap = None THEN FALSE
    ELSE IF book_osis[1] \notin DOMAIN BOOK_MAX_CHAPTERS
         THEN 1 <= chap[1] /\ chap[1] <= UnknownBookMaxChapter
         ELSE 1 <= chap[1] /\ chap[1] <= BOOK_MAX_CHAPTERS[book_osis[1]]

-----------------------------------------------------------------------------
(* 2) Regex patterns *)

Max(S) == CHOOSE x \in S : \A y \in S : y <= x
Min(S) == CHOOSE x \in S : \A y \in S : x <= y

DictKeys(d) == [i \in 1..Len(d) |-> d[i][1]]

\* sorted(keys, key=len, reverse=True): a stable sort, so keys of one length
\* keep their insertion order.
RECURSIVE SortedByLenDesc(_, _)
SortedByLenDesc(keys, n) ==
    IF n = 0 THEN <<>>
    ELSE LET OfLen(s) == Len(s) = n
         IN  SelectSeq(keys, OfLen) \o SortedByLenDesc(keys, n - 1)

_BOOK_TOKENS ==
    LET keys == DictKeys(BOOK_ALIASES)
    IN  SortedByLenDesc(keys, Max({Len(keys[i]) : i \in 1..Len(keys)} \cup {0}))

\* \d: the decimal digits (category Nd), of which the model has the ASCII
\* ones and one other; int() gives each its value.
Digits == <<"0","1","2","3","4","5","6","7","8","9">>
DigitValue == [c \in {Digits[i] : i \in 1..10} \cup {"arabic3"} |->
                 IF c = "arabic3" THEN 3
                 ELSE (CHOOSE i \in 1..10 : Digits[i] = c) - 1]
IsDigit(c) == c \in DOMAIN DigitValue
DigitVal(c) == DigitValue[c]

\* \d{1,3}: at most three digits.
MaxDigits == 3

\* DASH with the hyphen alone.
DASH_HyphenOnly == {"-"}

\* DASH: hyphen, en dash, em dash, tilde.
DASH == {"-", "endash", "emdash", "~"}

\* (?:[:U+FF1A]|U+7AE0)
ChapVerseSep == {":", "fwcolon", "zhang"}

\* int() of a group of digits.
RECURSIVE int(_)
int(ds) ==
    IF ds = <<>> THEN 0 ELSE 10 * int(SubSeq(ds, 1, Len(ds) - 1)) + DigitVal(ds[Len(ds)])

\* re.IGNORECASE: two characters match when they differ by case only; the
\* long s matches s and S.
IgnoreCase(c) == IF c = "long_s" THEN "s" ELSE LowerChar(c)

\* One alternative of BOOK_ALT at position i, under re.IGNORECASE.
TokenAt(s, i, tok) ==
    /\ i + Len(tok) - 1 <= Len(s)
    /\ \A k \in 1..Len(tok) : IgnoreCase(s[i + k - 1]) = IgnoreCase(tok[k])

\* \s* from position i: the position after the run of whitespace.  The
\* element after every \s* of the patterns starts with a non-space, so the
\* greedy run is the only length that can lead to a match.
RECURSIVE SkipSpaces(_, _)
SkipSpaces(s, i) ==
    IF i <= Len(s) /\ IsSpace(s[i]) THEN SkipSpaces(s, i + 1) ELSE i

\* \d{1,3} from position i: the position after the digits taken (i when
\* there is none).  Greedy; giving a digit back leaves a digit where the
\* pattern wants a non-digit, so no shorter run leads to a match.
RECURSIVE DigitsEnd(_, _, _)
DigitsEnd(s, i, n) ==
    IF n > 0 /\ i <= Len(s) /\ IsDigit(s[i]) THEN DigitsEnd(s, i + 1, n - 1) ELSE i

CharIn(s, i, set) == i <= Len(s) /\ s[i] \in set

\* A match object: the groups as substrings (<<>> for a group that did not
\* take part), and span() as 0-based [start, end).
Match(s, i, e, b1, c0, c1, v0, v1, w0, w1) ==
    [raw   |-> SubSeq(s, i, e - 1),
     book  |-> SubSeq(s, i, b1 - 1),
     chap  |-> SubSeq(s, c0, c1 - 1),
     v1    |-> SubSeq(s, v0, v1 - 1),
     v2    |-> SubSeq(s, w0, w1 - 1),
     span  |-> <<i - 1, e - 1>>]

\* RE_REF after a book token that ends before position b1; <<>> or <<m>>.
RefAfterBook(s, i, b1) ==
    LET c0 == SkipSpaces(s, b1)
        c1 == DigitsEnd(s, c0, MaxDigits)
        p  == SkipSpaces(s, c1)
        v0 == SkipSpaces(s, p + 1)
        v1 == DigitsEnd(s, v0, MaxDigits)
        d  == SkipSpaces(s, v1)
        w0 == SkipSpaces(s, d + 1)
        w1 == DigitsEnd(s, w0, MaxDigits)
        hasRange == CharIn(s, d, DASH) /\ w1 > w0
        r  == IF hasRange THEN w1 ELSE v1
        j  == SkipSpaces(s, r)
        e  == IF CharIn(s, j, {"jie"}) THEN j + 1 ELSE r
    IN  IF c1 > c0 /\ CharIn(s, p, ChapVerseSep) /\ v1 > v0
        THEN <<Match(s, i, e, b1, c0, c1, v0, v1,
                     IF hasRange THEN w0 ELSE 1, IF hasRange THEN w1 ELSE 1)>>
        ELSE <<>>

\* RE_CHAP_ONLY with a chapter/verse separator taken into the match when one
\* follows the chapter.
ChapOnlyAfterBook_TakesColon(s, i, b1) ==
    LET c0 == SkipSpaces(s, b1)
        c1 == DigitsEnd(s, c0, MaxDigits)
        j  == SkipSpaces(s, c1)
        e  == IF CharIn(s, j, {"zhang"} \cup ChapVerseSep) THEN j + 1 ELSE c1
    IN  IF c1 > c0 THEN <<Match(s, i, e, b1, c0, c1, 1, 1, 1, 1)>> ELSE <<>>

\* RE_CHAP_ONLY after a book token that ends before position b1.
ChapOnlyAfterBook(s, i, b1) ==
    LET c0 == SkipSpaces(s, b1)
        c1 == DigitsEnd(s, c0, MaxDigits)
        j  == SkipSpaces(s, c1)
        e  == IF CharIn(s, j, {"zhang"}) THEN j + 1 ELSE c1
    IN  IF c1 > c0 THEN <<Match(s, i, e, b1, c0, c1, 1, 1, 1, 1)>> ELSE <<>>

\* The two compiled patterns.
RE_REF == "RE_REF"
RE_CHAP_ONLY == "RE_CHAP_ONLY"

AfterBook(pattern, s, i, b1) ==
    IF pattern = RE_REF THEN RefAfterBook(s, i, b1) ELSE ChapOnlyAfterBook(s, i, b1)

\* MatchAt that commits to the shortest token found at position i and does
\* not try another when the rest of the pattern fails after it.
MatchAt_ShortestToken(pattern, s, i) ==
    LET at == {k \in 1..Len(_BOOK_TOKENS) : TokenAt(s, i, _BOOK_TOKENS[k])}
    IN  IF at = {} THEN <<>>
        ELSE AfterBook(pattern, s, i, i + Len(_BOOK_TOKENS[Max(at)]))

\* A match of the pattern that starts at position i; <<>> or <<m>>.  Of
\* the alternation BOOK_ALT it takes the first token of _BOOK_TOKENS at
\* position i after which the rest of the pattern matches.
MatchAt(pattern, s, i) ==
    LET ok == {k \in 1..Len(_BOOK_TOKENS) :
                 /\ TokenAt(s, i, _BOOK_TOKENS[k])
                 /\ AfterBook(pattern, s, i, i + Len(_BOOK_TOKENS[k])) # <<>>}
    IN  IF ok = {} THEN <<>>
        ELSE AfterBook(pattern, s, i, i + Len(_BOOK_TOKENS[Min(ok)]))

\* pattern.finditer(text): the leftmost match from each position on, the
\* scan resuming where the match ended (no match of these patterns is empty).
RECURSIVE finditer(_, _, _)
finditer(pattern, s, i) ==
    IF i > Len(s) THEN <<>>
    ELSE LET m == MatchAt(pattern, s, i)
         IN  IF m = <<>> THEN finditer(pattern, s, i + 1)
             ELSE m \o finditer(pattern, s, m[1].span[2] + 1)

-----------------------------------------------------------------------------
(* 4) Extraction *)

\* A MentionTuple: (raw_match, book_osis, chap, v1, v2, status, span).
Mention(raw, book, chap, v1, v2, status, span) ==
    [raw |-> raw, book |-> book, chap |-> chap, v1 |-> v1, v2 |-> v2,
     status |-> status, span |-> span]

\* int(m.group(g)) if m.group(g) else None
IntOrNone(g) == IF g # <<>> THEN Some(int(g)) ELSE None

\* An int() that takes the ASCII digits only.
IntRaises_AsciiOnly(g) ==
    \E k \in 1..Len(g) : g[k] \notin {Digits[i] : i \in 1..10}

\* int(g) raises ValueError: g holds a character that is no decimal digit.
IntRaises(g) == \E k \in 1..Len(g) : g[k] \notin DOMAIN DigitValue

\* Pass1Step with the out-of-range match dropped instead of kept.
Pass1Step_DropsJunk(acc, m) ==
    LET book == normalize_book(m.book)
        chap == IntOrNone(m.chap)
        v1   == IntOrNone(m.v1)
        v2   == IF IntOrNone(m.v2) = None THEN v1 ELSE IntOrNone(m.v2)
    IN  IF ~chap_in_range(book, chap)
        THEN acc
        ELSE [out |-> Append(acc.out,
                        Mention(m.raw, book, chap, v1, v2, "ok", m.span)),
              ref_spans |-> Append(acc.ref_spans, m.span)]

\* Pass1Step with the book and the chapter kept in the unparsed tuple.
Pass1Step_KeepsFields(acc, m) ==
    LET book == normalize_book(m.book)
        chap == IntOrNone(m.chap)
        v1   == IntOrNone(m.v1)
        v2   == IF IntOrNone(m.v2) = None THEN v1 ELSE IntOrNone(m.v2)
    IN  IF ~chap_in_range(book, chap)
        THEN [out |-> Append(acc.out,
                        Mention(m.raw, book, chap, None, None, "unparsed", m.span)),
              ref_spans |-> acc.ref_spans]
        ELSE [out |-> Append(acc.out,
                        Mention(m.raw, book, chap, v1, v2, "ok", m.span)),
              ref_spans |-> Append(acc.ref_spans, m.span)]

\* Pass1Step with the test turned round: the match in range is 'unparsed'.
Pass1Step_Inverted(acc, m) ==
    LET book == normalize_book(m.book)
        chap == IntOrNone(m.chap)
        v1   == IntOrNone(m.v1)
        v2   == IF IntOrNone(m.v2) = None THEN v1 ELSE IntOrNone(m.v2)
    IN  IF chap_in_range(book, chap)
        THEN [out |-> Append(acc.out,
                        Mention(m.raw, book, chap, None, None, "unparsed", m.span)),
              ref_spans |-> acc.ref_spans]
        ELSE [out |-> Append(acc.out,
                        Mention(m.raw, book, chap, v1, v2, "ok", m.span)),
              ref_spans |-> Append(acc.ref_spans, m.span)]

\* Pass1Step that records the span of every match of RE_REF as claimed.
Pass1Step_ClaimsUnparsed(acc, m) ==
    LET book == normalize_book(m.book)
        chap == IntOrNone(m.chap)
        v1   == IntOrNone(m.v1)
        v2   == IF IntOrNone(m.v2) = None THEN v1 ELSE IntOrNone(m.v2)
    IN  IF ~chap_in_range(book, chap)
        THEN [out |-> Append(acc.out,
                        Mention(m.raw, None, None, None, None, "unparsed", m.span)),
              ref_spans |-> Append(acc.ref_spans, m.span)]
        ELSE [out |-> Append(acc.out,
                        Mention(m.raw, book, chap, v1, v2, "ok", m.span)),
              ref_spans |-> Append(acc.ref_spans, m.span)]

\* Pass1Step that puts the mention at the front of out.
Pass1Step_Prepends(acc, m) ==
    LET book == normalize_book(m.book)
        chap == IntOrNone(m.chap)
        v1   == IntOrNone(m.v1)
        v2   == IF IntOrNone(m.v2) = None THEN v1 ELSE IntOrNone(m.v2)
    IN  IF ~chap_in_range(book, chap)
        THEN [out |-> <<Mention(m.raw, None, None, None, None, "unparsed", m.span)>>
                        \o acc.out,
              ref_spans |-> acc.ref_spans]
        ELSE [out |-> <<Mention(m.raw, book, chap, v1, v2, "ok", m.span)>> \o acc.out,
              ref_spans |-> Append(acc.ref_spans, m.span)]

\* The body of the first loop for one match of RE_REF; acc holds the
\* locals out and ref_spans.
Pass1Step(acc, m) ==
    LET book == normalize_book(m.book)
        chap == IntOrNone(m.chap)
        v1   == IntOrNone(m.v1)
        v2   == IF IntOrNone(m.v2) = None THEN v1 ELSE IntOrNone(m.v2)
    IN  IF ~chap_in_range(book, chap)
        THEN [out |-> Append(acc.out,
                        Mention(m.raw, None, None, None, None, "unparsed", m.span)),
              ref_spans |-> acc.ref_spans]
        ELSE [out |-> Append(acc.out,
                        Mention(m.raw, book, chap, v1, v2, "ok", m.span)),
              ref_spans |-> Append(acc.ref_spans, m.span)]

\* overlaps_any that never reports an overlap.
overlaps_any_Never(span, spans) == FALSE

\* overlaps_any on closed intervals: spans that touch count as overlapping.
overlaps_any_Closed(span, spans) ==
    \E k \in 1..Len(spans) : span[1] <= spans[k][2] /\ spans[k][1] <= span[2]

overlaps_any(span, spans) ==
    \E k \in 1..Len(spans) : span[1] < spans[k][2] /\ spans[k][1] < span[2]

HasChar(s, c) == \E k \in 1..Len(s) : s[k] = c

\* Pass2Step with the pass-1 policy: the out-of-range match kept as unparsed.
Pass2Step_KeepsJunk(acc, m) ==
    IF HasChar(m.raw, ":") \/ HasChar(m.raw, "fwcolon") THEN acc
    ELSE IF overlaps_any(m.span, acc.ref_spans) THEN acc
    ELSE LET book == normalize_book(m.book)
             chap == IntOrNone(m.chap)
         IN  [out |-> Append(acc.out,
                         IF chap_in_range(book, chap)
                         THEN Mention(m.raw, book, chap, None, None,
                                      "chapter_only", m.span)
                         ELSE Mention(m.raw, None, None, None, None,
                                      "unparsed", m.span)),
              ref_spans |-> acc.ref_spans]

\* Pass2Step without the range check.
Pass2Step_NoRangeCheck(acc, m) ==
    IF HasChar(m.raw, ":") \/ HasChar(m.raw, "fwcolon") THEN acc
    ELSE IF overlaps_any(m.span, acc.ref_spans) THEN acc
    ELSE [out |-> Append(acc.out,
                    Mention(m.raw, normalize_book(m.book), IntOrNone(m.chap),
                            None, None, "chapter_only", m.span)),
          ref_spans |-> acc.ref_spans]

\* The body of the second loop for one match of RE_CHAP_ONLY.
Pass2Step(acc, m) ==
    IF HasChar(m.raw, ":") \/ HasChar(m.raw, "fwcolon") THEN acc
    ELSE IF overlaps_any(m.span, acc.ref_spans) THEN acc
    ELSE LET book == normalize_book(m.book)
             chap == IntOrNone(m.chap)
         IN  IF chap_in_range(book, chap)
             THEN [out |-> Append(acc.out,
                             Mention(m.raw, book, chap, None, None,
                                     "chapter_only", m.span)),
                   ref_spans |-> acc.ref_spans]
             ELSE acc

\* for m in RE_REF.finditer(text): the locals after the first n matches.
RECURSIVE Pass1(_, _)
Pass1(refs, n) ==
    IF n = 0 THEN [out |-> <<>>, ref_spans |-> <<>>]
    ELSE Pass1Step(Pass1(refs, n - 1), refs[n])

\* for m in RE_CHAP_ONLY.finditer(text): the locals after the first n matches.
RECURSIVE Pass2(_, _, _)
Pass2(acc, chaps, n) ==
    IF n = 0 THEN acc ELSE Pass2Step(Pass2(acc, chaps, n - 1), chaps[n])

\* TwoPasses that runs the second loop whatever the flag.
TwoPasses_IgnoresFlag(refs, chaps, keep) ==
    Pass2(Pass1(refs, Len(refs)), chaps, Len(chaps)).out

\* The two loops of extract_mentions over what the two patterns yield.
TwoPasses(refs, chaps, keep) ==
    LET pass1 == Pass1(refs, Len(refs))
    IN  IF ~keep THEN pass1.out ELSE Pass2(pass1, chaps, Len(chaps)).out

extract_mentions(t, keep) ==
    TwoPasses(finditer(RE_REF, t, 1), finditer(RE_CHAP_ONLY, t, 1), keep)

\* The call ends in an exception instead of returning: one of the int()
\* calls of the first loop raises, or one of the second loop, which is
\* reached for the matches that are not skipped.
ExtractRaises(refs, chaps, keep) ==
    IF \E k \in 1..Len(refs) :
          IntRaises(refs[k].chap) \/ IntRaises(refs[k].v1) \/ IntRaises(refs[k].v2)
    THEN TRUE
    ELSE /\ keep
         /\ \E k \in 1..Len(chaps) :
              /\ ~(HasChar(chaps[k].raw, ":") \/ HasChar(chaps[k].raw, "fwcolon"))
              /\ ~overlaps_any(chaps[k].span, Pass1(refs, Len(refs)).ref_spans)
              /\ IntRaises(chaps[k].chap)

-----------------------------------------------------------------------------
(* The call of extract_mentions on a text of the input set. *)

\* The fragments a text is put together from: book tokens, digits, the
\* separators of the patterns, whitespace, and the start of a reference.
Pieces ==
    { <<"j","n">>, <<"j","u","d","e">>, <<"1">>, <<"3">>,
      <<":">>, <<"-">>, <<" ">>, <<"zhang">>, <<"j","n","3",":">> }

RECURSIVE Concat(_)
Concat(ps) == IF ps = <<>> THEN <<>> ELSE Head(ps) \o Concat(Tail(ps))

Texts == { Concat(ps) : ps \in UNION { [1..n -> Pieces] : n \in 0..MaxPieces } }

\* The database is not touched by a call of extract_mentions alone.
NoDb ==
    /\ pc = "off" /\ args = <<>> /\ paragraphs = <<>> /\ disk = <<>>
    /\ conn = <<>> /\ cur = <<>> /\ to_insert = <<>> /\ n_inserted = 0
    /\ run = 0 /\ run_start = <<>> /\ prev_done = <<>> /\ crash_pc = ""

XInit ==
    /\ text \in Texts
    /\ keep_chapter_only \in BOOLEAN
    /\ hits = <<>>
    /\ form_a = <<>>
    /\ form_b = <<>>
    /\ xpc = "input"
    /\ parts = <<>> /\ call = <<>> /\ ret = <<>>
    /\ NoDb

\* hits = extract_mentions(text, keep_chapter_only=keep_chapter_only)
Extract ==
    /\ xpc = "input"
    /\ form_a' = finditer(RE_REF, text, 1)
    /\ form_b' = finditer(RE_CHAP_ONLY, text, 1)
    /\ IF ExtractRaises(form_a', form_b', keep_chapter_only)
       THEN hits' = hits /\ xpc' = "raised"
       ELSE hits' = TwoPasses(form_a', form_b', keep_chapter_only) /\ xpc' = "returned"
    /\ UNCHANGED <<text, keep_chapter_only, fvars, dvars>>

XNext == Extract

SpecExtract == XInit /\ [][XNext]_vars

-----------------------------------------------------------------------------
(* The call of extract_mentions on one reference, written in every way the *)
(* patterns provide for and in some they do not.                           *)

\* A book token as written and the code its alias is registered for (None:
\* no alias is written that way).
Book(s, osis) == [s |-> s, osis |-> osis]

\* A number as written and its value.
Num(s, n) == [s |-> s, n |-> n]

FormBooks ==
    { Book(<<"yue">>, Some("John")),
      Book(<<"yue","yi">>, Some("1John")),
      Book(<<"yue","han","fu","yin">>, Some("John")),
      Book(<<"J","n">>, Some("John")),
      Book(<<"j","u","d","e">>, Some("Jude")),
      Book(<<"R","o","m">>, Some("Rom")),
      Book(<<"1","long_s","a","m">>, None) }

FormGaps == { <<>>, <<" ">> }

FormChaps ==
    { Num(<<"0">>, 0), Num(<<"1">>, 1), Num(<<"3">>, 3),
      Num(<<"arabic3">>, 3), Num(<<"1","9","3">>, 193) }

FormSeps == { <<>>, <<":">>, <<"fwcolon">>, <<"zhang">> }

FormVerses == { Num(<<>>, 0), Num(<<"1","6">>, 16), Num(<<"2","3">>, 23) }

FormDashes == { <<>>, <<"-">>, <<"endash">>, <<"emdash">>, <<"~">> }

FormEnds == { Num(<<>>, 0), Num(<<"1","6">>, 16), Num(<<"2","4">>, 24) }

FormSuffixes == { <<>>, <<"jie">> }

RefParts ==
    [book : FormBooks, gap : FormGaps, chap : FormChaps, sep : FormSeps,
     v1 : FormVerses, dash : FormDashes, v2 : FormEnds, jie : FormSuffixes]

\* The text of the parts, the gap between each two of them.
Compose(p) ==
    p.book.s \o p.gap \o p.chap.s \o p.gap \o p.sep \o p.gap \o p.v1.s
             \o p.gap \o p.dash \o p.gap \o p.v2.s \o p.gap \o p.jie

FInit ==
    /\ parts \in RefParts
    /\ text = Compose(parts)
    /\ keep_chapter_only \in BOOLEAN
    /\ hits = <<>>
    /\ form_a = <<>>
    /\ form_b = <<>>
    /\ xpc = "input"
    /\ call = <<>> /\ ret = <<>>
    /\ NoDb

SpecForms == FInit /\ [][XNext]_vars

-----------------------------------------------------------------------------
(* The call of extract_mentions on a reference with a text right after it. *)

\* A reference with chapter and verse: a book, a chapter within or beyond
\* the chapters of the book, a verse.
HeadBooks == { <<"G","e","n">>, <<"j","u","d","e">>, <<"j","n">> }
HeadChaps == { <<"1">>, <<"3">>, <<"6","0">> }
HeadVerses == { <<"1">>, <<"1","6">> }
Heads ==
    { b \o g \o c \o <<":">> \o v :
        b \in HeadBooks, g \in {<<>>, <<" ">>}, c \in HeadChaps, v \in HeadVerses }

\* What follows the reference without a space: nothing, or a book and a
\* chapter, which with the digit before it reads as another book.
Tails ==
    { <<>>,
      <<"J","o","h","n"," ","3">>,
      <<"j","o","h","n","3">>,
      <<"J","o","h","n"," ","3","0">>,
      <<"s","a","m"," ","3">>,
      <<" ","j","n","3">>,
      <<"J","o","h","n"," ","3",":","1">> }

TInit ==
    /\ parts \in Heads \X Tails
    /\ text = parts[1] \o parts[2]
    /\ keep_chapter_only \in BOOLEAN
    /\ hits = <<>>
    /\ form_a = <<>>
    /\ form_b = <<>>
    /\ xpc = "input"
    /\ call = <<>> /\ ret = <<>>
    /\ NoDb

SpecTwoRefs == TInit /\ [][XNext]_vars

-----------------------------------------------------------------------------
(* The calls of _add, normalize_book and chap_in_range on their own. *)

\* chap_in_range: no code, the empty code, a code without an entry, and
\* every code of BOOK_MAX_CHAPTERS; no chapter and the chapters to MaxChapter.
RangeCodes ==
    {None, Some(""), Some("Xyz")} \cup {Some(k) : k \in DOMAIN BOOK_MAX_CHAPTERS}

RangeChaps == {None} \cup {Some(n) : n \in -1..MaxChapter}

RangeCalls == [fn : {"chap_in_range"}, book_osis : RangeCodes, chap : RangeChaps]

\* normalize_book: every registered alias and some tokens that are none,
\* each padded, in either case and with its inner spaces stretched.
UpperOf == [c \in {LowerCase[i] : i \in 1..26} |->
               UpperCase[CHOOSE i \in 1..26 : LowerCase[i] = c]]

Upper(s) == [i \in 1..Len(s) |-> IF s[i] \in DOMAIN UpperOf THEN UpperOf[s[i]] ELSE s[i]]

RECURSIVE Stretch(_, _)
Stretch(s, by) ==
    IF s = <<>> THEN <<>>
    ELSE (IF Head(s) = " " THEN by ELSE <<Head(s)>>) \o Stretch(Tail(s), by)

TokenBases ==
    { Book(Registrations[i][2], Some(Registrations[i][1])) : i \in 1..Len(Registrations) }
    \cup { Book(<<>>, None), Book(<<"x","y","z">>, None), Book(<<"j"," ","n">>, None),
           Book(<<"1","long_s","a","m">>, None), Book(<<"1","j","n">>, None) }

Pads == { <<>>, <<" ">>, <<"tab"," ">> }

Runs == { <<" ">>, <<" "," ">>, <<"tab">> }

Variants ==
    [base : TokenBases, lead : Pads, trail : Pads, upper : BOOLEAN, inner : Runs]

Decorate(v) ==
    v.lead \o Stretch(IF v.upper THEN Upper(v.base.s) ELSE v.base.s, v.inner) \o v.trail

NormalizeCalls ==
    { [fn |-> "normalize_book", token |-> Decorate(v), how |-> v] : v \in Variants }

\* _add: the registrations of at most MaxRegs aliases for two codes.
RegPairs == {"John", "Jude"} \X { <<"j","n">>, <<"J","N">>, <<"yue">> }

RegLists == UNION { [1..n -> RegPairs] : n \in 0..MaxRegs }

AddCalls == [fn : {"_add"}, regs : RegLists]

FnInit ==
    /\ call \in RangeCalls \cup NormalizeCalls \cup AddCalls
    /\ ret = <<>>
    /\ xpc = "input"
    /\ text = <<>> /\ keep_chapter_only = TRUE /\ hits = <<>>
    /\ form_a = <<>> /\ form_b = <<>> /\ parts = <<>>
    /\ NoDb

\* ret = chap_in_range(book_osis, chap)
CallChapInRange ==
    /\ xpc = "input" /\ call.fn = "chap_in_range"
    /\ ret' = chap_in_range(call.book_osis, call.chap)
    /\ xpc' = "returned"
    /\ UNCHANGED <<text, keep_chapter_only, hits, form_a, form_b, parts, call, dvars>>

\* ret = normalize_book(token)
CallNormalizeBook ==
    /\ xpc = "input" /\ call.fn = "normalize_book"
    /\ ret' = normalize_book(call.token)
    /\ xpc' = "returned"
    /\ UNCHANGED <<text, keep_chapter_only, hits, form_a, form_b, parts, call, dvars>>

\* The _add calls of regs on an empty BOOK_ALIASES; ret is the table.  No
\* statement of _add raises.
CallAdd ==
    /\ xpc = "input" /\ call.fn = "_add"
    /\ ret' = _add(<<>>, call.regs, Len(call.regs))
    /\ xpc' = "returned"
    /\ UNCHANGED <<text, keep_chapter_only, hits, form_a, form_b, parts, call, dvars>>

FnNext == CallChapInRange \/ CallNormalizeBook \/ CallAdd

SpecFunctions == FnInit /\ [][FnNext]_vars

-----------------------------------------------------------------------------
(* 3) DB schema + migration *)

\* The columns of verse_mentions in SCHEMA, and before para_id was added.
Columns ==
    {"id", "doc_id", "p_index", "para_id", "raw_match", "book_osis",
     "chapter", "verse_start", "verse_end", "parse_status"}
OldColumns == Columns \ {"para_id"}

\* A database: the columns of verse_mentions ({}: no such table), the names
\* of its indexes, its rows in rowid order, and the AUTOINCREMENT counter
\* (sqlite_sequence), which a DELETE does not reset.
Database(columns, indexes, rows, seq) ==
    [columns |-> columns, indexes |-> indexes, rows |-> rows, seq |-> seq]

\* CREATE TABLE IF NOT EXISTS verse_mentions (...)
CreateTableIfNotExists(db) ==
    IF db.columns = {} THEN [db EXCEPT !.columns = Columns] ELSE db

\* CREATE INDEX IF NOT EXISTS name ON verse_mentions(on): nothing when the
\* index exists, the error "no such column" when a column is missing.
CreateIndexIfNotExists(r, name, on) ==
    IF r.error THEN r
    ELSE IF name \in r.db.indexes THEN r
    ELSE IF ~(on \subseteq r.db.columns) THEN [r EXCEPT !.error = TRUE]
    ELSE [r EXCEPT !.db.indexes = @ \cup {name}]

\* conn.executescript(SCHEMA): statement by statement, each committed as it
\* is executed, up to the first that fails.
ExecuteSchema(db) ==
    LET r0 == [db |-> CreateTableIfNotExists(db), error |-> FALSE]
        r1 == CreateIndexIfNotExists(r0, "idx_mentions_doc", {"doc_id"})
        r2 == CreateIndexIfNotExists(r1, "idx_mentions_para", {"para_id"})
    IN  CreateIndexIfNotExists(r2, "idx_mentions_book_ch", {"book_osis", "chapter"})

\* ALTER TABLE verse_mentions ADD COLUMN para_id INTEGER: the rows that
\* exist get NULL in the new column.
AddParaIdColumn(db) ==
    [db EXCEPT !.columns = @ \cup {"para_id"},
               !.rows = [i \in 1..Len(@) |->
                           [c \in DOMAIN @[i] \cup {"para_id"} |->
                              IF c = "para_id" THEN None ELSE @[i][c]]]]

\* ensure_schema: the database it leaves, and whether it raised.
ensure_schema(db) ==
    LET r == ExecuteSchema(db)
    IN  IF r.error THEN r
        ELSE IF "para_id" \notin r.db.columns
        THEN CreateIndexIfNotExists([r EXCEPT !.db = AddParaIdColumn(@)],
                                    "idx_mentions_para", {"para_id"})
        ELSE r

-----------------------------------------------------------------------------
(* 5) Main *)

\* Row k of paragraphs.  Documents alternate and p_index grows with k, so
\* the order of (doc_id, p_index) is not the order of id.
Paragraph(k, t) ==
    [id |-> k, doc_id |-> 1 + (k % 2), p_index |-> k \div 2, text |-> t]

\* The texts a paragraph may hold: one with an 'ok' and a 'chapter_only'
\* mention, one with an 'unparsed' mention, one with none.
ParaTexts ==
    { <<"j","n","3",":","1"," ","j","n","3">>,
      <<"j","u","d","e","3",":","1">>,
      <<"n","o","n","e">> }

\* --limit values: 0 (all) and 1.
Limits == {0, 1}

Args == [reset : BOOLEAN, limit : Limits, no_chapter_only : BOOLEAN]

\* ORDER BY id
Before_ById(p, q) == p.id < q.id

\* ORDER BY doc_id, p_index
Before(p, q) ==
    p.doc_id < q.doc_id \/ (p.doc_id = q.doc_id /\ p.p_index < q.p_index)

RECURSIVE OrderBy(_)
OrderBy(S) ==
    IF S = {} THEN <<>>
    ELSE LET first == CHOOSE p \in S : \A q \in S \ {p} : Before(p, q)
         IN  <<first>> \o OrderBy(S \ {first})

\* SELECT id, doc_id, p_index, text FROM paragraphs ORDER BY doc_id, p_index
\* [LIMIT n], the LIMIT added when args.limit > 0.
SelectParagraphs(ps, limit) ==
    LET all == OrderBy({ps[i] : i \in 1..Len(ps)})
    IN  IF limit > 0 THEN SubSeq(all, 1, Min({limit, Len(all)})) ELSE all

\* The tuples the inner loop appends to to_insert for one paragraph.
ParagraphTuples(p, keep) ==
    LET hs == extract_mentions(p.text, keep)
    IN  [j \in 1..Len(hs) |->
           [doc_id |-> p.doc_id, p_index |-> p.p_index, para_id |-> Some(p.id),
            raw_match |-> hs[j].raw, book_osis |-> hs[j].book,
            chapter |-> hs[j].chap, verse_start |-> hs[j].v1,
            verse_end |-> hs[j].v2, parse_status |-> hs[j].status]]

\* INSERT INTO verse_mentions(...) VALUES(?,?,?,?,?,?,?,?,?): the row gets
\* the next AUTOINCREMENT id.
InsertMention(db, t) ==
    [db EXCEPT !.seq = @ + 1,
               !.rows = Append(@, [c \in Columns |->
                                     IF c = "id" THEN db.seq + 1 ELSE t[c]])]

\* The databases a run may find: none yet; one of the present schema with a
\* row of an earlier run; one of the schema before para_id, with such a row.
StaleRow ==
    [doc_id |-> 1, p_index |-> 1, para_id |-> Some(2),
     raw_match |-> <<"r","o","m","1",":","1">>, book_osis |-> Some("Rom"),
     chapter |-> Some(1), verse_start |-> Some(1), verse_end |-> Some(1),
     parse_status |-> "ok"]

AllIndexes == {"idx_mentions_doc", "idx_mentions_para", "idx_mentions_book_ch"}

FreshDb == Database({}, {}, <<>>, 0)
PresentDb == InsertMention(Database(Columns, AllIndexes, <<>>, 0), StaleRow)
OldDb ==
    Database(OldColumns, AllIndexes \ {"idx_mentions_para"},
             <<[c \in OldColumns |-> IF c = "id" THEN 1 ELSE StaleRow[c]]>>, 1)

Init ==
    /\ text = <<>> /\ keep_chapter_only = TRUE /\ hits = <<>>
    /\ form_a = <<>> /\ form_b = <<>> /\ xpc = "off"
    /\ parts = <<>> /\ call = <<>> /\ ret = <<>>
    /\ pc = "connect"
    /\ args \in Args
    /\ paragraphs \in { [k \in 1..MaxParas |-> Paragraph(k, f[k])] :
                          f \in [1..MaxParas -> ParaTexts] }
    /\ disk \in {FreshDb, PresentDb, OldDb}
    /\ conn = disk
    /\ cur = <<>> /\ to_insert = <<>> /\ n_inserted = 0
    /\ run = 1
    /\ run_start = disk
    /\ prev_done = None
    /\ crash_pc = ""

\* conn = sqlite3.connect(args.db); PRAGMA foreign_keys=ON
Connect ==
    /\ pc = "connect"
    /\ conn' = disk
    /\ pc' = "ensure_schema"
    /\ UNCHANGED <<xvars, fvars, args, paragraphs, disk, cur, to_insert, n_inserted,
                   run, run_start, prev_done, crash_pc>>

\* ensure_schema(conn); an error it raises ends main.
EnsureSchema ==
    /\ pc = "ensure_schema"
    /\ LET r == ensure_schema(conn)
       IN  /\ conn' = r.db
           /\ disk' = r.db
           /\ pc' = IF r.error THEN "failed" ELSE "reset"
    /\ UNCHANGED <<xvars, fvars, args, paragraphs, cur, to_insert, n_inserted,
                   run, run_start, prev_done, crash_pc>>

\* Reset that deletes whether or not --reset is given.
Reset_Always ==
    /\ pc = "reset"
    /\ conn' = [conn EXCEPT !.rows = <<>>]
    /\ pc' = IF args.reset THEN "reset_commit" ELSE "select"
    /\ UNCHANGED <<xvars, fvars, args, paragraphs, disk, cur, to_insert, n_inserted,
                   run, run_start, prev_done, crash_pc>>

\* Reset that deletes the mentions of the paragraphs in scope only:
\* DELETE FROM verse_mentions WHERE para_id IN (the paragraphs selected).
Reset_ScopedDelete ==
    /\ pc = "reset"
    /\ conn' = IF args.reset
               THEN LET sel == SelectParagraphs(paragraphs, args.limit)
                        OutOfScope(r) ==
                            \A k \in 1..Len(sel) : r.para_id # Some(sel[k].id)
                    IN  [conn EXCEPT !.rows = SelectSeq(@, OutOfScope)]
               ELSE conn
    /\ pc' = IF args.reset THEN "reset_commit" ELSE "select"
    /\ UNCHANGED <<xvars, fvars, args, paragraphs, disk, cur, to_insert, n_inserted,
                   run, run_start, prev_done, crash_pc>>

\* Reset without the DELETE.
Reset_NoDelete ==
    /\ pc = "reset"
    /\ pc' = IF args.reset THEN "reset_commit" ELSE "select"
    /\ UNCHANGED <<xvars, fvars, args, paragraphs, disk, conn, cur, to_insert,
                   n_inserted, run, run_start, prev_done, crash_pc>>

\* if args.reset: conn.execute("DELETE FROM verse_mentions;")
Reset ==
    /\ pc = "reset"
    /\ conn' = IF args.reset THEN [conn EXCEPT !.rows = <<>>] ELSE conn
    /\ pc' = IF args.reset THEN "reset_commit" ELSE "select"
    /\ UNCHANGED <<xvars, fvars, args, paragraphs, disk, cur, to_insert, n_inserted,
                   run, run_start, prev_done, crash_pc>>

\* ResetCommit without the commit: the DELETE stays in the transaction that
\* the INSERTs join.
ResetCommit_NoCommit ==
    /\ pc = "reset_commit"
    /\ pc' = "select"
    /\ UNCHANGED <<xvars, fvars, args, paragraphs, disk, conn, cur, to_insert,
                   n_inserted, run, run_start, prev_done, crash_pc>>

\* conn.commit() after the DELETE
ResetCommit ==
    /\ pc = "reset_commit"
    /\ disk' = conn
    /\ pc' = "select"
    /\ UNCHANGED <<xvars, fvars, args, paragraphs, conn, cur, to_insert, n_inserted,
                   run, run_start, prev_done, crash_pc>>

\* cur = conn.execute(q); to_insert = []
Select ==
    /\ pc = "select"
    /\ cur' = SelectParagraphs(paragraphs, args.limit)
    /\ to_insert' = <<>>
    /\ pc' = IF cur' = <<>> THEN "insert" ELSE "scan"
    /\ UNCHANGED <<xvars, fvars, args, paragraphs, disk, conn, n_inserted,
                   run, run_start, prev_done, crash_pc>>

\* Scan with a list "out" that extract_mentions does not start afresh:
\* the mentions of the paragraphs before come back with every paragraph.
Scan_SharedOut ==
    /\ pc = "scan"
    /\ cur # <<>>
    /\ to_insert' =
          to_insert
          \o [k \in 1..Len(to_insert) |->
                 [to_insert[k] EXCEPT !.doc_id = Head(cur).doc_id,
                                      !.p_index = Head(cur).p_index,
                                      !.para_id = Some(Head(cur).id)]]
          \o ParagraphTuples(Head(cur), ~args.no_chapter_only)
    /\ cur' = Tail(cur)
    /\ pc' = IF cur' = <<>> THEN "insert" ELSE "scan"
    /\ UNCHANGED <<xvars, fvars, args, paragraphs, disk, conn, n_inserted,
                   run, run_start, prev_done, crash_pc>>

\* One iteration of "for para_id, doc_id, p_index, text in cur".
Scan ==
    /\ pc = "scan"
    /\ cur # <<>>
    /\ to_insert' = to_insert \o ParagraphTuples(Head(cur), ~args.no_chapter_only)
    /\ cur' = Tail(cur)
    /\ pc' = IF cur' = <<>> THEN "insert" ELSE "scan"
    /\ UNCHANGED <<xvars, fvars, args, paragraphs, disk, conn, n_inserted,
                   run, run_start, prev_done, crash_pc>>

\* InsertRow on a connection in autocommit mode: every INSERT is durable
\* at once.
InsertRow_Autocommit ==
    /\ pc = "insert"
    /\ n_inserted < Len(to_insert)
    /\ conn' = InsertMention(conn, to_insert[n_inserted + 1])
    /\ disk' = conn'
    /\ n_inserted' = n_inserted + 1
    /\ UNCHANGED <<xvars, fvars, pc, args, paragraphs, cur, to_insert,
                   run, run_start, prev_done, crash_pc>>

\* conn.executemany(INSERT ..., to_insert): one INSERT per buffered tuple,
\* all in the transaction the first INSERT opens.
InsertRow ==
    /\ pc = "insert"
    /\ n_inserted < Len(to_insert)
    /\ conn' = InsertMention(conn, to_insert[n_inserted + 1])
    /\ n_inserted' = n_inserted + 1
    /\ UNCHANGED <<xvars, fvars, pc, args, paragraphs, disk, cur, to_insert,
                   run, run_start, prev_done, crash_pc>>

\* conn.commit() after executemany
Commit ==
    /\ pc = "insert"
    /\ n_inserted = Len(to_insert)
    /\ disk' = conn
    /\ pc' = "close"
    /\ UNCHANGED <<xvars, fvars, args, paragraphs, conn, cur, to_insert, n_inserted,
                   run, run_start, prev_done, crash_pc>>

\* The prints, conn.close() and return 0.
Close ==
    /\ pc = "close"
    /\ pc' = "done"
    /\ cur' = <<>> /\ to_insert' = <<>> /\ n_inserted' = 0
    /\ UNCHANGED <<xvars, fvars, args, paragraphs, disk, conn,
                   run, run_start, prev_done, crash_pc>>

\* The process is killed before main returns: what was not committed is
\* rolled back when the database is next opened.
Crash ==
    /\ pc \notin {"done", "failed", "crashed"}
    /\ crash_pc' = pc
    /\ pc' = "crashed"
    /\ conn' = disk
    /\ cur' = <<>> /\ to_insert' = <<>>
    /\ UNCHANGED <<xvars, fvars, args, paragraphs, disk, n_inserted,
                   run, run_start, prev_done>>

\* main is started again on the same database, with any arguments.
Rerun ==
    /\ pc \in {"done", "failed", "crashed"}
    /\ run < MaxRuns
    /\ run' = run + 1
    /\ args' \in Args
    /\ prev_done' = IF pc = "done"
                    THEN Some([args |-> args, rows |-> disk.rows]) ELSE None
    /\ run_start' = disk
    /\ conn' = disk
    /\ pc' = "connect"
    /\ crash_pc' = ""
    /\ n_inserted' = 0
    /\ UNCHANGED <<xvars, fvars, paragraphs, disk, cur, to_insert>>

Next ==
    \/ Connect \/ EnsureSchema \/ Reset \/ ResetCommit \/ Select \/ Scan
    \/ InsertRow \/ Commit \/ Close \/ Crash \/ Rerun

Spec == Init /\ [][Next]_vars

-----------------------------------------------------------------------------
(* The readers of verse_mentions: list_target_verses of                    *)
(* 07_ai_extract/ai_extract_commentary.py and the query of                 *)
(* 06_grouped_by_verse/export_grouped_by_verse.py.                         *)

\* The codes the rows of the model hold, in the order of SQLite's BINARY
\* collation.
Collation == <<"1John", "1Sam", "Gen", "John", "Jude", "Rom">>

BookRank(b) == CHOOSE i \in 1..Len(Collation) : Collation[i] = b

\* ORDER BY over several columns: tuples of integers, the first that
\* differs decides.
RECURSIVE LexLess(_, _)
LexLess(a, b) ==
    /\ a # <<>>
    /\ \/ Head(a) < Head(b)
       \/ Head(a) = Head(b) /\ LexLess(Tail(a), Tail(b))

\* The pairs <<sort key, row>> of S in the order of their keys.
RECURSIVE SortPairs(_)
SortPairs(S) ==
    IF S = {} THEN <<>>
    ELSE LET first == CHOOSE x \in S : \A y \in S \ {x} : LexLess(x[1], y[1])
         IN  <<first[2]>> \o SortPairs(S \ {first})

\* WHERE ... book_osis IS NOT NULL AND chapter IS NOT NULL AND
\* verse_start IS NOT NULL AND verse_end IS NOT NULL
KeyNotNull(r) ==
    /\ r.book_osis # None /\ r.chapter # None
    /\ r.verse_start # None /\ r.verse_end # None

\* VerseKey(book_osis, chapter, verse_start, verse_end)
VerseKey(r) ==
    <<r.book_osis[1], r.chapter[1], r.verse_start[1], r.verse_end[1]>>

KeyOrder(k) == <<BookRank(k[1]), k[2], k[3], k[4]>>

\* list_target_verses without the GROUP BY: a key for every row.
list_target_verses_NoGroupBy(rows) ==
    SortPairs({ <<KeyOrder(VerseKey(rows[i])) \o <<i>>, VerseKey(rows[i])>> :
                  i \in {j \in 1..Len(rows) :
                            rows[j].parse_status = "ok" /\ KeyNotNull(rows[j])} })

\* list_target_verses: SELECT book_osis, chapter, verse_start, verse_end
\* FROM verse_mentions WHERE parse_status='ok' AND ... IS NOT NULL
\* GROUP BY and ORDER BY the four columns.
list_target_verses(rows) ==
    SortPairs({ <<KeyOrder(VerseKey(rows[i])), VerseKey(rows[i])>> :
                  i \in {j \in 1..Len(rows) :
                            rows[j].parse_status = "ok" /\ KeyNotNull(rows[j])} })

\* --only-status of the grouped export, by default.
OnlyStatusDefault == "ok"

\* The query of the grouped export: the rows of verse_mentions of the one
\* status, joined to their paragraph (and its document, which the foreign
\* key provides), ordered by reference, document, paragraph and row.
\* --limit is 0, its default.  A table without para_id gives no row.
ExportQuery(rows, paras, only_status) ==
    SortPairs({ <<KeyOrder(<<rows[i].book_osis[1], rows[i].chapter[1],
                             rows[i].verse_start[1],
                             IF rows[i].verse_end = None THEN rows[i].verse_start[1]
                             ELSE rows[i].verse_end[1]>>)
                    \o <<paras[k].doc_id, paras[k].p_index, rows[i].id>>,
                  [vm |-> rows[i], p |-> paras[k]]>> :
                  <<i, k>> \in {x \in (1..Len(rows)) \X (1..Len(paras)) :
                      /\ "para_id" \in DOMAIN rows[x[1]]
                      /\ rows[x[1]].para_id = Some(paras[x[2]].id)
                      /\ rows[x[1]].parse_status = only_status
                      /\ rows[x[1]].book_osis # None
                      /\ rows[x[1]].chapter # None
                      /\ rows[x[1]].verse_start # None} })

-----------------------------------------------------------------------------
(* Properties of extract_mentions, under SpecExtract. *)

Returned == xpc = "returned"

\* What the two patterns find in the text.
FormA == form_a
FormB == form_b

InRange(m) == chap_in_range(normalize_book(m.book), IntOrNone(m.chap))

Intersect(a, b) == a[1] < b[2] /\ b[1] < a[2]

HitsAt(span, statuses) ==
    {j \in 1..Len(hits) : hits[j].span = span /\ hits[j].status \in statuses}

HitsOf(statuses) == {j \in 1..Len(hits) : hits[j].status \in statuses}

\* C1: every Form A match of the text yields exactly one pass-1 mention, 'ok'
\* when chap_in_range holds of its book and chapter and 'unparsed' when not;
\* none is omitted.
C1_EveryFormAMatchEmitted ==
    Returned =>
        \A k \in 1..Len(FormA) :
            LET m == FormA[k]
                js == HitsAt(m.span, {"ok", "unparsed"})
            IN  /\ Cardinality(js) = 1
                /\ \A j \in js :
                     /\ hits[j].raw = m.raw
                     /\ hits[j].status = IF InRange(m) THEN "ok" ELSE "unparsed"

\* A Form A match with an out-of-range chapter was found and is in the list.
C1_Witness_UnparsedKept ==
    /\ Returned
    /\ \E k \in 1..Len(FormA) :
         ~InRange(FormA[k]) /\ HitsAt(FormA[k].span, {"unparsed"}) # {}

\* C2 as stated: the 'unparsed' mention of an out-of-range Form A match
\* carries the normalized book code and the parsed chapter.
C2_Original_UnparsedRetainsBookChapter ==
    Returned =>
        \A k \in 1..Len(FormA) :
            ~InRange(FormA[k]) =>
                \A j \in HitsAt(FormA[k].span, {"unparsed"}) :
                    /\ hits[j].book = normalize_book(FormA[k].book)
                    /\ hits[j].chap = IntOrNone(FormA[k].chap)

\* C2, amended: the 'unparsed' mention of an out-of-range Form A match has
\* book_osis, chapter, verse_start and verse_end all None; of the match it
\* keeps the raw text and the span only.
C2_UnparsedFieldsAreNone ==
    Returned =>
        \A k \in 1..Len(FormA) :
            ~InRange(FormA[k]) =>
                /\ HitsAt(FormA[k].span, {"unparsed"}) # {}
                /\ \A j \in HitsAt(FormA[k].span, {"unparsed"}) :
                     /\ hits[j].book = None /\ hits[j].chap = None
                     /\ hits[j].v1 = None /\ hits[j].v2 = None
                     /\ hits[j].raw = FormA[k].raw

\* An out-of-range Form A match whose book is a registered alias (Jude has
\* one chapter) and whose chapter was parsed.
C2_Witness_KnownBookOutOfRange ==
    /\ Returned
    /\ \E k \in 1..Len(FormA) :
         /\ normalize_book(FormA[k].book) = Some("Jude")
         /\ IntOrNone(FormA[k].chap) = Some(3)
         /\ HitsAt(FormA[k].span, {"unparsed"}) # {}

\* C3: an out-of-range Form B match yields no mention at all, and every
\* 'unparsed' mention of the list is the mention of a Form A match.
C3_Pass2DiscardsOutOfRange ==
    Returned =>
        /\ \A k \in 1..Len(FormB) :
             ~InRange(FormB[k]) =>
                 HitsAt(FormB[k].span, {"ok", "chapter_only", "unparsed"}) = {}
        /\ \A j \in HitsOf({"unparsed"}) :
             \E k \in 1..Len(FormA) : FormA[k].span = hits[j].span

\* With the flag set, an out-of-range Form B match that no claimed span
\* overlaps (so only the range check can have removed it) left no mention.
C3_Witness_JunkChapterDropped ==
    /\ Returned /\ keep_chapter_only
    /\ \E k \in 1..Len(FormB) :
         /\ ~InRange(FormB[k])
         /\ \A j \in HitsOf({"ok"}) : ~Intersect(FormB[k].span, hits[j].span)
         /\ HitsAt(FormB[k].span, {"ok", "chapter_only", "unparsed"}) = {}

\* C4: no 'chapter_only' mention intersects, as half-open intervals, the
\* span of an 'ok' mention of the same list.
C4_ChapterOnlyDisjointFromOk ==
    Returned =>
        \A i \in HitsOf({"chapter_only"}), j \in HitsOf({"ok"}) :
            ~Intersect(hits[i].span, hits[j].span)

\* A 'chapter_only' mention that starts where an 'ok' mention ends: the
\* spans touch and both mentions are in the list.
C4_Witness_TouchingSpans ==
    /\ Returned
    /\ \E i \in HitsOf({"chapter_only"}), j \in HitsOf({"ok"}) :
         hits[j].span[2] = hits[i].span[1]

\* C5: with keep_chapter_only, every in-range Form B match whose span
\* intersects no span claimed in pass 1 is in the list as exactly one
\* 'chapter_only' mention with its book and chapter.
C5_FreeChapterOnlyKept ==
    (Returned /\ keep_chapter_only) =>
        \A k \in 1..Len(FormB) :
            LET m == FormB[k]
            IN  (/\ InRange(m)
                 /\ \A j \in HitsOf({"ok"}) : ~Intersect(m.span, hits[j].span))
                => /\ Cardinality(HitsAt(m.span, {"chapter_only"})) = 1
                   /\ \A i \in HitsAt(m.span, {"chapter_only"}) :
                        /\ hits[i].book = normalize_book(m.book)
                        /\ hits[i].chap = IntOrNone(m.chap)
                        /\ hits[i].raw = m.raw

\* A 'chapter_only' mention of a book and chapter that an 'ok' mention
\* elsewhere in the same text has claimed.
C5_Witness_SameChapterElsewhere ==
    /\ Returned /\ keep_chapter_only
    /\ \E i \in HitsOf({"chapter_only"}), j \in HitsOf({"ok"}) :
         hits[i].book = hits[j].book /\ hits[i].chap = hits[j].chap

\* C10: a mention with both verse_start and verse_end has
\* verse_end >= verse_start.
C10_VerseEndNotBeforeStart ==
    Returned =>
        \A j \in 1..Len(hits) :
            (hits[j].v1 # None /\ hits[j].v2 # None) => hits[j].v2[1] >= hits[j].v1[1]

\* C23: an 'unparsed' mention lacks its book or its chapter, or has a
\* chapter outside the bounds of its book; none has a known book with a
\* chapter in range, and the match it came from is out of range too.
C23_UnparsedIsInvalid ==
    Returned =>
        \A j \in HitsOf({"unparsed"}) :
            /\ \/ hits[j].book = None
               \/ hits[j].chap = None
               \/ ~chap_in_range(hits[j].book, hits[j].chap)
            /\ \A k \in 1..Len(FormA) :
                  FormA[k].span = hits[j].span => ~InRange(FormA[k])

\* A reference to chapter 0 of a known book: the mention is 'unparsed'
\* and has neither book nor chapter.
C23_Witness_ChapterZero ==
    /\ Returned
    /\ parts # <<>> /\ parts.book.osis # None /\ parts.chap.n = 0
    /\ Len(FormA) = 1 /\ normalize_book(FormA[1].book) = parts.book.osis
    /\ Len(hits) = 1 /\ hits[1].status = "unparsed"
    /\ hits[1].book = None /\ hits[1].chap = None

NotChapterOnly(h) == h.status # "chapter_only"

\* C18: without keep_chapter_only the list has no 'chapter_only' mention
\* and is the list of the first loop; it is the list returned with the
\* flag, less the 'chapter_only' mentions, in the same order.
C18_FlagOffIsPassOne ==
    Returned =>
        LET with    == TwoPasses(FormA, FormB, TRUE)
            without == TwoPasses(FormA, FormB, FALSE)
        IN  /\ without = SelectSeq(with, NotChapterOnly)
            /\ without = Pass1(FormA, Len(FormA)).out
            /\ hits = IF keep_chapter_only THEN with ELSE without
            /\ ~keep_chapter_only => HitsOf({"chapter_only"}) = {}

\* The call without the flag returned mentions, for a text of which the
\* call with the flag returns a 'chapter_only' mention more.
C18_Witness_ChapterOnlyLeftOut ==
    /\ Returned /\ ~keep_chapter_only
    /\ hits # <<>>
    /\ Len(TwoPasses(FormA, FormB, TRUE)) > Len(hits)

HasColon(s) == HasChar(s, ":") \/ HasChar(s, "fwcolon")

\* The body of the second loop with its first test, the one on a colon in
\* the raw match, taken out.
GuardDeleted(acc, m) ==
    IF overlaps_any(m.span, acc.ref_spans) THEN acc
    ELSE LET book == normalize_book(m.book)
             chap == IntOrNone(m.chap)
         IN  IF chap_in_range(book, chap)
             THEN [out |-> Append(acc.out,
                             Mention(m.raw, book, chap, None, None,
                                     "chapter_only", m.span)),
                   ref_spans |-> acc.ref_spans]
             ELSE acc

RECURSIVE Pass2GuardDeleted(_, _, _)
Pass2GuardDeleted(acc, chaps, n) ==
    IF n = 0 THEN acc
    ELSE GuardDeleted(Pass2GuardDeleted(acc, chaps, n - 1), chaps[n])

\* C25: no raw match of the chapter-only pattern holds ':' or the
\* full-width colon, so the colon test of the second loop never skips a
\* match and the call returns what it returns with the test deleted.
C25_ColonGuardNeverFires ==
    xpc # "input" =>
        /\ \A k \in 1..Len(FormB) : ~HasColon(FormB[k].raw)
        /\ Returned /\ keep_chapter_only =>
              hits = Pass2GuardDeleted(Pass1(FormA, Len(FormA)), FormB, Len(FormB)).out

\* A chapter-only match that a colon follows at once in the text, kept as
\* a chapter_only mention whose raw stops before the colon.
C25_Witness_ColonRightAfterMatch ==
    /\ Returned /\ keep_chapter_only
    /\ \E k \in 1..Len(FormB) :
         /\ FormB[k].span[2] < Len(text)
         /\ text[FormB[k].span[2] + 1] = ":"
         /\ \E j \in 1..Len(hits) :
              hits[j].status = "chapter_only" /\ hits[j].span = FormB[k].span

\* The spans of the mentions j of hits with lo <= j <= hi are not empty and
\* each ends before the next starts.
InTextOrder(lo, hi) ==
    /\ \A j \in lo..hi : hits[j].span[1] < hits[j].span[2]
    /\ \A i, j \in lo..hi : i < j => hits[i].span[2] <= hits[j].span[1]

\* C27: the returned list holds the mentions of the first loop ('ok' and
\* 'unparsed') first, in increasing start offset and without overlap, and
\* after them the 'chapter_only' mentions, in increasing start offset and
\* without overlap.
C27_PassOneThenChapterOnly ==
    Returned =>
        LET n == Cardinality(HitsOf({"ok", "unparsed"}))
        IN  /\ \A j \in 1..Len(hits) :
                  IF j <= n THEN hits[j].status \in {"ok", "unparsed"}
                  ELSE hits[j].status = "chapter_only"
            /\ n = Len(Pass1(FormA, Len(FormA)).out)
            /\ InTextOrder(1, n)
            /\ InTextOrder(n + 1, Len(hits))

\* The list is not in text order as a whole: a chapter_only mention that
\* stands before a reference in the text comes after it in the list.
C27_Witness_EarlierChapterOnlyComesLast ==
    /\ Returned
    /\ \E i, j \in 1..Len(hits) :
         /\ i < j
         /\ hits[i].status \in {"ok", "unparsed"}
         /\ hits[j].status = "chapter_only"
         /\ hits[j].span[2] <= hits[i].span[1]

-----------------------------------------------------------------------------
(* Properties of extract_mentions on a reference and what follows it,     *)
(* under SpecTwoRefs.                                                      *)

IsOk(h) == h.status = "ok"
IsChapterOnly(h) == h.status = "chapter_only"

SpansOf(hs) == [j \in 1..Len(hs) |-> hs[j].span]

\* C26: the first loop records as claimed the spans of its 'ok' mentions
\* only, so the 'chapter_only' mentions of a text are those of the text
\* with its out-of-range matches of RE_REF left out.
C26_UnparsedSpanNotClaimed ==
    Returned =>
        /\ Pass1(FormA, Len(FormA)).ref_spans = SpansOf(SelectSeq(hits, IsOk))
        /\ SelectSeq(hits, IsChapterOnly)
             = SelectSeq(TwoPasses(SelectSeq(FormA, InRange), FormB,
                                   keep_chapter_only), IsChapterOnly)

\* A chapter_only mention whose span overlaps the span of an unparsed
\* mention, as '1John 3' and 'Gen 60:1' in "Gen 60:1John 3" do.
C26_Witness_ChapterOnlyInsideUnparsed ==
    /\ Returned /\ keep_chapter_only
    /\ \E i, j \in 1..Len(hits) :
         /\ hits[i].status = "unparsed"
         /\ hits[j].status = "chapter_only"
         /\ Intersect(hits[i].span, hits[j].span)

-----------------------------------------------------------------------------
(* Properties of extract_mentions on one reference, under SpecForms. *)

\* The chapter as written is a chapter of the book as written.
PartsInRange(p) ==
    /\ p.book.osis # None
    /\ 1 <= p.chap.n /\ p.chap.n <= BOOK_MAX_CHAPTERS[p.book.osis[1]]

\* C11: an 'ok' mention has book_osis, chapter, verse_start and verse_end,
\* and its chapter is at least 1 and at most BOOK_MAX_CHAPTERS of its book.
C11_OkFieldsPresentInRange ==
    Returned =>
        \A j \in HitsOf({"ok"}) :
            /\ hits[j].book # None /\ hits[j].chap # None
            /\ hits[j].v1 # None /\ hits[j].v2 # None
            /\ hits[j].book[1] \in DOMAIN BOOK_MAX_CHAPTERS
            /\ 1 <= hits[j].chap[1]
            /\ hits[j].chap[1] <= BOOK_MAX_CHAPTERS[hits[j].book[1]]

\* An 'ok' mention of the last chapter of its book.
C11_Witness_OkAtLastChapter ==
    /\ Returned
    /\ \E j \in HitsOf({"ok"}) :
         hits[j].chap[1] = BOOK_MAX_CHAPTERS[hits[j].book[1]]

\* C12: a 'chapter_only' mention has book_osis and chapter, has neither
\* verse_start nor verse_end, and its chapter is within the bounds of its
\* book.
C12_ChapterOnlyFields ==
    Returned =>
        \A j \in HitsOf({"chapter_only"}) :
            /\ hits[j].book # None /\ hits[j].chap # None
            /\ hits[j].v1 = None /\ hits[j].v2 = None
            /\ hits[j].book[1] \in DOMAIN BOOK_MAX_CHAPTERS
            /\ 1 <= hits[j].chap[1]
            /\ hits[j].chap[1] <= BOOK_MAX_CHAPTERS[hits[j].book[1]]

\* A 'chapter_only' mention of the last chapter of its book.
C12_Witness_ChapterOnlyAtLastChapter ==
    /\ Returned /\ keep_chapter_only
    /\ \E j \in HitsOf({"chapter_only"}) :
         hits[j].chap[1] = BOOK_MAX_CHAPTERS[hits[j].book[1]]

\* C22: BOOK_MAX_CHAPTERS has one entry for each of the 66 codes that
\* aliases are registered for and no other, so a code that normalize_book
\* returns has its own entry: the book of no match of the patterns is
\* checked against the bound for codes without an entry.
C22_BoundsCoverAliasCodes ==
    /\ Len(RegisteredCodes) = 66
    /\ \A i, j \in 1..Len(RegisteredCodes) :
          RegisteredCodes[i] = RegisteredCodes[j] => i = j
    /\ {RegisteredCodes[i] : i \in 1..Len(RegisteredCodes)} = DOMAIN BOOK_MAX_CHAPTERS
    /\ {BOOK_ALIASES[i][2] : i \in 1..Len(BOOK_ALIASES)}
          \subseteq {RegisteredCodes[i] : i \in 1..Len(RegisteredCodes)}
    /\ Returned =>
          \A k \in 1..Len(FormA \o FormB) :
              LET book == normalize_book((FormA \o FormB)[k].book)
              IN  book = None \/ book[1] \in DOMAIN BOOK_MAX_CHAPTERS

\* A reference to a chapter that its book does not have and that the bound
\* for codes without an entry would let pass: it is 'unparsed'.
C22_Witness_OwnMaximumApplied ==
    /\ Returned /\ parts.book.osis # None
    /\ parts.chap.n > BOOK_MAX_CHAPTERS[parts.book.osis[1]]
    /\ parts.chap.n <= UnknownBookMaxChapter
    /\ Len(FormA) = 1
    /\ Len(hits) = 1 /\ hits[1].status = "unparsed"

\* a is a proper prefix of b.
ProperPrefix(a, b) == Len(a) < Len(b) /\ SubSeq(b, 1, Len(a)) = a

\* The book is written as a registered alias B of which another registered
\* alias A is a proper prefix.
LongerAlias(p) ==
    \E i, j \in 1..Len(Registrations) :
        /\ Registrations[j][2] = lower(p.book.s)
        /\ ProperPrefix(Registrations[i][2], Registrations[j][2])

\* Separator and verse are written: a Form A reference.
FormAShape(p) == p.sep # <<>> /\ p.v1.s # <<>>

\* No digit follows the chapter as written at once.
ChapterAlone(p) == ~(p.gap = <<>> /\ p.sep = <<>> /\ p.v1.s # <<>>)

\* C13: where the text has an alias B, of which an alias A is a proper
\* prefix, followed by a chapter, no mention carries another code than the
\* code of B; with the chapter in range the one mention of the text starts
\* at B and has the code of B and the chapter written, 'ok' with the verse
\* when separator and verse follow, 'chapter_only' (flag set) when not.
C13_LongestAliasWins ==
    (Returned /\ LongerAlias(parts) /\ parts.dash = <<>> /\ parts.v2.s = <<>>) =>
        /\ \A j \in 1..Len(hits) : hits[j].book \in {None, parts.book.osis}
        /\ (PartsInRange(parts) /\ FormAShape(parts)) =>
              /\ Len(hits) = 1
              /\ hits[1].status = "ok"
              /\ hits[1].span[1] = 0
              /\ hits[1].book = parts.book.osis
              /\ hits[1].chap = Some(parts.chap.n)
              /\ hits[1].v1 = Some(parts.v1.n)
        /\ (/\ PartsInRange(parts) /\ ~FormAShape(parts)
            /\ ChapterAlone(parts) /\ keep_chapter_only) =>
              /\ Len(hits) = 1
              /\ hits[1].status = "chapter_only"
              /\ hits[1].span[1] = 0
              /\ hits[1].book = parts.book.osis
              /\ hits[1].chap = Some(parts.chap.n)

\* The text is the alias of 1John, of which the alias of John is a proper
\* prefix, with chapter 3 and verse 16: the mention is of 1John.
C13_Witness_EpistleNotGospel ==
    /\ Returned
    /\ parts.book.s = <<"yue","yi">> /\ DictHas(BOOK_ALIASES, <<"yue">>)
    /\ parts.chap.n = 3 /\ parts.v1.n = 16 /\ FormAShape(parts)
    /\ Len(hits) = 1
    /\ hits[1].status = "ok" /\ hits[1].book = Some("1John")

\* The fields of the mentions, the raw text and the span aside.
Fields(hs) ==
    [j \in 1..Len(hs) |->
        <<hs[j].book, hs[j].chap, hs[j].v1, hs[j].v2, hs[j].status>>]

\* A range is written: a dash and a number after it.
RangeWritten(p) == p.dash # <<>> /\ p.v2.s # <<>>

\* C17: a Form A reference to a chapter of its book gives an 'ok' mention
\* whose verse_start is the number written before the dash and whose
\* verse_end is the number written after it, and verse_start again when no
\* range is written; the fields are the same whichever of the four dashes
\* is written.
C17_VerseRangeAnyDash ==
    (/\ Returned /\ PartsInRange(parts) /\ FormAShape(parts)
     /\ parts.dash = <<>> => parts.v2.s = <<>>) =>
        /\ Len(hits) = 1
        /\ hits[1].status = "ok"
        /\ hits[1].v1 = Some(parts.v1.n)
        /\ hits[1].v2 = IF RangeWritten(parts) THEN Some(parts.v2.n)
                        ELSE Some(parts.v1.n)
        /\ parts.dash = <<"-">> =>
              \A d \in {"endash", "emdash", "~"} :
                  Fields(extract_mentions(Compose([parts EXCEPT !.dash = <<d>>]),
                                          keep_chapter_only)) = Fields(hits)

\* "Rom 3:23~24", the range written with a tilde, gave verses 23 to 24.
C17_Witness_TildeRange ==
    /\ Returned
    /\ parts.book.s = <<"R","o","m">> /\ parts.chap.s = <<"3">>
    /\ parts.v1.n = 23 /\ parts.dash = <<"~">> /\ parts.v2.n = 24
    /\ Len(hits) = 1
    /\ hits[1].v1 = Some(23) /\ hits[1].v2 = Some(24)

\* The book group of the match is no alias, or its chapter is out of range.
Invalid(m) == normalize_book(m.book) = None \/ ~InRange(m)

\* C20: the call never ends in an exception; it returns a list in which a
\* Form A match with an unknown book or an out-of-range chapter is an
\* 'unparsed' mention and from which a Form B match of that kind is left
\* out.
C20_NeverRaises ==
    /\ xpc # "raised"
    /\ Returned =>
          /\ hits \in Seq({hits[j] : j \in 1..Len(hits)})
          /\ \A k \in 1..Len(FormA) :
                Invalid(FormA[k]) =>
                    /\ Cardinality(HitsAt(FormA[k].span, {"unparsed"})) = 1
                    /\ HitsAt(FormA[k].span, {"ok", "chapter_only"}) = {}
          /\ \A k \in 1..Len(FormB) :
                Invalid(FormB[k]) => HitsAt(FormB[k].span, {"chapter_only"}) = {}

\* A reference whose book is no alias (it is written with a long s) and
\* whose chapter is a digit outside ASCII: pass 1 kept it as 'unparsed'.
C20_Witness_UnknownBookUnparsed ==
    /\ Returned
    /\ parts.book.osis = None /\ parts.chap.s = <<"arabic3">>
    /\ Len(FormA) = 1 /\ normalize_book(FormA[1].book) = None
    /\ Len(hits) = 1 /\ hits[1].status = "unparsed"

-----------------------------------------------------------------------------
(* Properties of _add, chap_in_range and normalize_book, under             *)
(* SpecFunctions.                                                          *)

Called(fn) == xpc = "returned" /\ call.fn = fn

\* Two of the registrations give one alias, letter case aside, to two codes.
Conflicting(regs) ==
    \E i, j \in 1..Len(regs) :
        i < j /\ lower(regs[i][2]) = lower(regs[j][2]) /\ regs[i][1] # regs[j][1]

\* C14: building the alias table from registrations that give one alias
\* (after lower-casing) to two different codes ends in a fatal error, so
\* no table is produced in which the later registration replaced the
\* earlier one.
C14_ConflictAbortsBuild ==
    Called("_add") => ~Conflicting(call.regs)

\* C15: chap_in_range is false without a code or without a chapter; for a
\* code of BOOK_MAX_CHAPTERS it is true exactly when the chapter is at
\* least 1 and at most the book's count, so false for chapter 0 and for
\* Romans 17.
C15_KnownBookRange ==
    Called("chap_in_range") =>
        /\ (call.book_osis \in {None, Some("")} \/ call.chap = None) => ret = FALSE
        /\ (/\ call.book_osis # None /\ call.chap # None
            /\ call.book_osis[1] \in DOMAIN BOOK_MAX_CHAPTERS) =>
               (ret <=> (/\ 1 <= call.chap[1]
                         /\ call.chap[1] <= BOOK_MAX_CHAPTERS[call.book_osis[1]]))
        /\ (call.book_osis = Some("Rom") /\ call.chap = Some(16)) => ret = TRUE
        /\ (call.book_osis = Some("Rom") /\ call.chap \in {Some(0), Some(17)})
               => ret = FALSE

\* chap_in_range(Rom, 17) was called and returned false.
C15_Witness_Romans17 ==
    /\ Called("chap_in_range")
    /\ call.book_osis = Some("Rom") /\ call.chap = Some(17)
    /\ ret = FALSE

\* C16: for a non-empty code without an entry in BOOK_MAX_CHAPTERS,
\* chap_in_range is true exactly when the chapter is at least 1 and at
\* most 200.
C16_UnknownBookPermissive ==
    (/\ Called("chap_in_range")
     /\ call.book_osis \notin {None, Some("")} /\ call.chap # None
     /\ call.book_osis[1] \notin DOMAIN BOOK_MAX_CHAPTERS)
    => (ret <=> (1 <= call.chap[1] /\ call.chap[1] <= 200))

\* chap_in_range was called with a code without an entry and chapter 200
\* and returned true.
C16_Witness_Unknown200 ==
    /\ Called("chap_in_range")
    /\ call.book_osis = Some("Xyz") /\ call.chap = Some(200)
    /\ ret = TRUE

\* C19: normalize_book gives every registered alias the code it was
\* registered for, whatever the case of its ASCII letters, the whitespace
\* around it and the run of whitespace in place of an inner space; a token
\* that is no alias gives None.
C19_NormalizeFoldsCaseAndSpace ==
    Called("normalize_book") => ret = call.how.base.osis

\* An alias with an inner space, in capitals, padded on both sides and with
\* a tab for the inner space, was given its code.
C19_Witness_PaddedCapitals ==
    /\ Called("normalize_book")
    /\ call.how.base.s = <<"1"," ","j","o","h","n">>
    /\ call.how.upper /\ call.how.inner = <<"tab">>
    /\ call.how.lead # <<>> /\ call.how.trail # <<>>
    /\ ret = Some("1John")

-----------------------------------------------------------------------------
(* Properties of the schema migration and of the run, under Spec. *)

\* Rows without the surrogate id.
Proj(rows) ==
    [i \in 1..Len(rows) |-> [c \in DOMAIN rows[i] \ {"id"} |-> rows[i][c]]]

\* A sequence as a multiset.
BagOf(sq) ==
    [x \in {sq[i] : i \in 1..Len(sq)} |-> Cardinality({i \in 1..Len(sq) : sq[i] = x})]

RECURSIVE TuplesOf(_, _)
TuplesOf(ps, keep) ==
    IF ps = <<>> THEN <<>>
    ELSE ParagraphTuples(Head(ps), keep) \o TuplesOf(Tail(ps), keep)

\* The complete result of a run with arguments a: the mentions of every
\* selected paragraph.
NewResult(a) == TuplesOf(SelectParagraphs(paragraphs, a.limit), ~a.no_chapter_only)

\* ensure_schema was called in this run.
SchemaEnsured ==
    /\ pc \notin {"connect", "ensure_schema"}
    /\ pc = "crashed" => crash_pc \notin {"connect", "ensure_schema"}

\* The paragraphs the loop of main is done with.
Scanned ==
    IF pc \in {"scan", "insert"}
    THEN LET sel == SelectParagraphs(paragraphs, args.limit)
         IN  SubSeq(sel, 1, Len(sel) - Len(cur))
    ELSE <<>>

\* The buffered rows of paragraph p.
RowsOf(p) ==
    LET OfP(t) == t.para_id = Some(p.id)
    IN  SelectSeq(to_insert, OfP)

\* What a buffered row holds of the mention.
RowFields(rows) ==
    [k \in 1..Len(rows) |->
        <<rows[k].raw_match, rows[k].book_osis, rows[k].chapter,
          rows[k].verse_start, rows[k].verse_end, rows[k].parse_status>>]

\* What a mention gives to its row.
HitFields(hs) ==
    [k \in 1..Len(hs) |->
        <<hs[k].raw, hs[k].book, hs[k].chap, hs[k].v1, hs[k].v2, hs[k].status>>]

RowKey(r) == <<r.book_osis, r.chapter, r.verse_start, r.verse_end>>

SomeKey(k) == <<Some(k[1]), Some(k[2]), Some(k[3]), Some(k[4])>>

\* C24: list_target_verses returns every reference of an 'ok' row of
\* verse_mentions once and no reference that only rows of another status
\* have; the grouped export with its default status reads 'ok' rows only.
C24_ConsumersReadOkOnly ==
    LET tv == list_target_verses(disk.rows)
        ex == ExportQuery(disk.rows, paragraphs, OnlyStatusDefault)
    IN  /\ \A i, j \in 1..Len(tv) : tv[i] = tv[j] => i = j
        /\ {SomeKey(tv[i]) : i \in 1..Len(tv)}
              = {RowKey(disk.rows[i]) :
                   i \in {j \in 1..Len(disk.rows) : disk.rows[j].parse_status = "ok"}}
        /\ \A i \in 1..Len(disk.rows) :
              disk.rows[i].parse_status # "ok" =>
                  \A j \in 1..Len(tv) : SomeKey(tv[j]) # RowKey(disk.rows[i])
        /\ \A i \in 1..Len(ex) : ex[i].vm.parse_status = "ok"

\* The table holds two 'ok' rows of one reference and rows of the other
\* two statuses; the reference is listed and the export reads both rows.
C24_Witness_SameReferenceTwice ==
    /\ \E i, j \in 1..Len(disk.rows) :
         /\ i < j /\ disk.rows[i].parse_status = "ok"
         /\ disk.rows[j].parse_status = "ok"
         /\ RowKey(disk.rows[i]) = RowKey(disk.rows[j])
    /\ \E i \in 1..Len(disk.rows) : disk.rows[i].parse_status = "chapter_only"
    /\ \E i \in 1..Len(disk.rows) : disk.rows[i].parse_status = "unparsed"
    /\ Len(list_target_verses(disk.rows)) = 1
    /\ Len(ExportQuery(disk.rows, paragraphs, OnlyStatusDefault)) = 2

\* C6: ensure_schema on a verse_mentions table without para_id completes
\* without error; the table then has the column and idx_mentions_para, and
\* the rows that existed are kept, with para_id NULL.
C6_MigrationAddsParaId ==
    (SchemaEnsured /\ run_start.columns = OldColumns) =>
        /\ pc # "failed"
        /\ "para_id" \in disk.columns
        /\ "idx_mentions_para" \in disk.indexes
        /\ pc = "reset" => disk.rows = AddParaIdColumn(run_start).rows

\* C7: whatever the point at which a run with reset is interrupted, the
\* committed rows are the rows from before the run, or none, or the
\* complete result of the run.
C7_ResetRunDurableStates ==
    args.reset =>
        \/ disk.rows = run_start.rows
        \/ disk.rows = <<>>
        \/ Proj(disk.rows) = NewResult(args)

\* A run with reset on a table with rows, interrupted inside executemany
\* after some but not all INSERTs: nothing is committed.
C7_Witness_CrashInsideExecutemany ==
    /\ args.reset /\ pc = "crashed" /\ crash_pc = "insert"
    /\ run_start.rows # <<>>
    /\ 0 < n_inserted /\ n_inserted < Len(NewResult(args))
    /\ disk.rows = <<>>

\* C8 as stated: one commit point, so the committed table is never one
\* from which the earlier mentions are gone and in which the new ones are
\* not yet.
C8_Original_SingleCommitPoint ==
    (args.reset /\ run_start.rows # <<>> /\ NewResult(args) # <<>>) =>
        disk.rows # <<>>

\* C8, amended: the run has two commit points.  The committed rows change
\* only at the commit after the DELETE of reset, to none, and at the commit
\* after executemany, by all the new mentions at once; with reset the
\* committed table is empty in between.
C8_TwoCommitPoints ==
    [][disk'.rows # disk.rows =>
          \/ pc = "reset_commit" /\ disk'.rows = <<>>
          \/ /\ pc = "insert"
             /\ Proj(disk'.rows) = Proj(disk.rows) \o NewResult(args)
             /\ args.reset => disk.rows = <<>>]_vars

\* A run with reset on a table with rows has executed every INSERT and not
\* yet committed: the committed table is empty.
C8_Witness_EmptyBetweenCommits ==
    /\ args.reset /\ pc = "insert"
    /\ run_start.rows # <<>>
    /\ to_insert # <<>> /\ n_inserted = Len(to_insert)
    /\ disk.rows = <<>>

\* C9: a run with reset that follows a completed run with reset and the
\* same arguments, over the same paragraphs, leaves the same multiset of
\* rows, the id aside.
C9_ResetRunIdempotent ==
    (/\ pc = "done" /\ args.reset
     /\ prev_done # None /\ prev_done[1].args = args)
    => BagOf(Proj(disk.rows)) = BagOf(Proj(prev_done[1].rows))

\* The second of two such runs is complete, the table is not empty and its
\* rows carry other ids than after the first run.
C9_Witness_SecondRunNewIds ==
    /\ pc = "done" /\ args.reset
    /\ prev_done # None /\ prev_done[1].args = args
    /\ disk.rows # <<>>
    /\ disk.rows # prev_done[1].rows

\* sq starts with pre.
StartsWith(sq, pre) ==
    Len(sq) >= Len(pre) /\ SubSeq(sq, 1, Len(pre)) = pre

\* C28: in a run without reset the rows from before the run stay as they
\* are, in the transaction and on disk, and the completed run has added
\* one row for each mention extracted, after them.
C28_RunWithoutResetAppends ==
    ~args.reset =>
        /\ StartsWith(conn.rows, run_start.rows)
        /\ StartsWith(disk.rows, run_start.rows)
        /\ pc \in {"close", "done"} =>
              /\ Proj(disk.rows) = Proj(run_start.rows) \o NewResult(args)
              /\ Len(disk.rows) = Len(run_start.rows) + Len(NewResult(args))

\* A run without reset is complete after a complete run without reset and
\* with the same arguments: the mentions are in the table twice.
C28_Witness_RepeatedRunDuplicates ==
    /\ pc = "done" /\ ~args.reset
    /\ prev_done # None /\ prev_done[1].args = args
    /\ NewResult(args) # <<>>
    /\ run_start.rows = prev_done[1].rows
    /\ \A k \in 1..Len(NewResult(args)) :
          BagOf(Proj(disk.rows))[NewResult(args)[k]] >= 2

\* The ids of the first n paragraphs in the order of (doc_id, p_index).
FirstIds(n) ==
    { q.id : q \in { paragraphs[i] : i \in 1..Len(paragraphs) } }
    \ { q.id : q \in { paragraphs[i] : i \in {j \in 1..Len(paragraphs) :
            Cardinality({k \in 1..Len(paragraphs) :
                LexLess(<<paragraphs[k].doc_id, paragraphs[k].p_index>>,
                        <<paragraphs[j].doc_id, paragraphs[j].p_index>>)}) >= n} } }

\* C29: a run with reset and a limit N > 0 deletes every row of
\* verse_mentions, and when it is complete the table holds the mentions of
\* the first N paragraphs in (doc_id, p_index) order and no other row.
C29_ResetWithLimitDeletesAll ==
    (args.reset /\ args.limit > 0) =>
        /\ pc = "reset_commit" => conn.rows = <<>>
        /\ pc = "done" =>
              /\ Proj(disk.rows) = NewResult(args)
              /\ \A i \in 1..Len(disk.rows) :
                    /\ disk.rows[i].para_id # None
                    /\ disk.rows[i].para_id[1] \in FirstIds(args.limit)

\* Before the run the table held mentions of a paragraph beyond the first
\* N; the run is complete, the table is not empty and they are gone.
C29_Witness_OutOfScopeMentionsGone ==
    /\ pc = "done" /\ args.reset /\ args.limit > 0
    /\ disk.rows # <<>>
    /\ \E i \in 1..Len(run_start.rows) :
         /\ run_start.rows[i].para_id # None
         /\ run_start.rows[i].para_id[1] \notin FirstIds(args.limit)

\* The rows the INSERTs of this run have added so far.
Inserted ==
    IF pc = "insert"
    THEN SubSeq(conn.rows, Len(conn.rows) - n_inserted + 1, Len(conn.rows))
    ELSE <<>>

ParagraphOf(r) ==
    CHOOSE q \in {paragraphs[i] : i \in 1..Len(paragraphs)} : Some(q.id) = r.para_id

\* The rows of Inserted that have the para_id of row r.
InsertedOf(r) ==
    LET Same(x) == x.para_id = r.para_id
    IN  SelectSeq(Inserted, Same)

\* C30: a row inserted by a run has the id of one paragraph as para_id,
\* not NULL, and the doc_id and p_index of that paragraph; the rows come in
\* the order of (doc_id, p_index) of their paragraphs, those of one
\* paragraph in the order of the list extract_mentions returns for its
\* text; no column holds the span.
C30_RowsCarryTheirParagraph ==
    /\ \A k \in 1..Len(Inserted) :
          LET r == Inserted[k]
          IN  /\ r.para_id # None
              /\ Cardinality({i \in 1..Len(paragraphs) :
                                 Some(paragraphs[i].id) = r.para_id}) = 1
              /\ r.doc_id = ParagraphOf(r).doc_id
              /\ r.p_index = ParagraphOf(r).p_index
              /\ DOMAIN r = Columns
              /\ {"span", "span_start", "span_end"} \cap DOMAIN r = {}
              /\ StartsWith(HitFields(extract_mentions(ParagraphOf(r).text,
                                                       ~args.no_chapter_only)),
                            RowFields(InsertedOf(r)))
    /\ \A i, j \in 1..Len(Inserted) :
          i < j =>
             /\ Inserted[i].id < Inserted[j].id
             /\ \/ Inserted[i].para_id = Inserted[j].para_id
                \/ LexLess(<<Inserted[i].doc_id, Inserted[i].p_index>>,
                           <<Inserted[j].doc_id, Inserted[j].p_index>>)

\* Every INSERT of a run is executed; the rows are of two paragraphs, the
\* one with the greater id first, and one paragraph has two rows.
C30_Witness_TwoParagraphsInserted ==
    /\ pc = "insert" /\ n_inserted = Len(to_insert) /\ n_inserted >= 3
    /\ Inserted[1].para_id[1] > Inserted[Len(Inserted)].para_id[1]
    /\ Inserted[1].para_id = Inserted[2].para_id
    /\ Inserted[1].parse_status # Inserted[2].parse_status

====
